---- MODULE Spec2Model ----
(***************************************************************************)
(* Panel2D (src/panel2d.py): a rectangular panel on which library profiles *)
(* are placed, either as edge cuts (subtracted from the outer boundary) or *)
(* as inner wires (holes), and from which as_shape builds the final face.  *)
(*                                                                         *)
(* The geometry kernel is modelled on the integer grid: a planar region is *)
(* a set of unit cells <<x, y>> (the cell [x, x+1] x [y, y+1]), a face of  *)
(* a compound is a 4-connected component, the area of a face is its number *)
(* of cells.  Profiles are axis-aligned rectangles and rotations are       *)
(* multiples of 90 degrees, so every bounding box stays on the grid.       *)
(* Inner wires are kept in doubled coordinates (2 * millimetres) because   *)
(* the centre-based placement halves the bounding box sums.                *)
(***************************************************************************)
EXTENDS Integers, Sequences, FiniteSets

\* ---------------------------------------------------------------- bounds
\* The number of wires of a panel shape whose export is followed step by
\* step.
MaxWires == 2
\* Most shapes (edge cuts plus inner wires) registered on a panel in Spec.
MaxShapes == 3
\* Most add_library_shape calls on a panel in PlaceSpec.
MaxPlaced == 1
\* Most shapes registered on a panel in ExportSpec.
MaxExported == 3
\* Most placements in the request of a view in ViewSpec.
MaxViewShapes == 3
\* Most top-level items in a stored BREP file in LoadSpec.
MaxItems == 3

\* ---------------------------------------------------------------- inputs
\* Panels a behaviour can be constructed with: width, height, origin.
Panels ==
  { [width |-> 7, height |-> 1, ox |-> 0, oy |-> 0],
    [width |-> 4, height |-> 3, ox |-> 0, oy |-> 0] }

PlacePanels ==
  Panels \cup { [width |-> 3, height |-> 2, ox |-> 1, oy |-> 2] }

\* Stored profiles (the BREP files a path can name): the bounding box of the
\* profile wire in its local frame, and whether the kernel's analyzer accepts
\* the geometry built from it (ok = FALSE: a malformed wire).  shape is the
\* content of the file, the top-level items of its compound; curve tells
\* whether the wire is a polygon of line edges or one closed periodic edge;
\* done is what BRepAlgoAPI_Cut reports when the profile is the cut tool;
\* ori is the orientation of the wire as the explorer returns it (FORWARD
\* for a canonical profile).
Stored(id, x0, y0, w, h, ok, shape, curve, done) ==
  [id |-> id, x0 |-> x0, y0 |-> y0, w |-> w, h |-> h, ok |-> ok,
   shape |-> shape, curve |-> curve, done |-> done, ori |-> "FORWARD"]

WithOrientation(p, ori) == [p EXCEPT !.ori = ori]

Profiles ==
  { Stored("sq1",  0, 0, 1, 1, TRUE,  <<"face">>, "polygon", TRUE),
    Stored("bar",  0, 0, 2, 1, TRUE,  <<"face">>, "polygon", TRUE),
    Stored("off",  1, 2, 1, 2, TRUE,  <<"face">>, "polygon", TRUE),
    Stored("full", 0, 0, 4, 3, TRUE,  <<"face">>, "polygon", TRUE),
    Stored("bad",  0, 0, 1, 1, FALSE, <<"face">>, "polygon", TRUE),
    Stored("disc", 0, 0, 1, 1, TRUE,  <<"face">>, "circle",  TRUE),
    Stored("hard", 0, 0, 1, 1, TRUE,  <<"face">>, "polygon", FALSE),
    Stored("loose", 0, 0, 1, 1, TRUE, <<"line">>, "polygon", TRUE),
    WithOrientation(Stored("rev", 0, 0, 2, 2, TRUE, <<"face">>, "polygon",
                           TRUE), "REVERSED"),
    WithOrientation(Stored("inl", 0, 0, 2, 2, TRUE, <<"face">>, "polygon",
                           TRUE), "INTERNAL"),
    WithOrientation(Stored("ext", 0, 0, 2, 2, TRUE, <<"face">>, "polygon",
                           TRUE), "EXTERNAL") }

Kinds == {"edge_affecting", "internal_cutout"}
Edges == {"None", "Left", "Right", "Top", "Bottom"}
Angles == {0, 90, 180, 270}
\* tx, ty, position and scale of a call, as <<tx, ty, position, scale>>.
Offsets == { <<0, 0, 0, 1>>, <<3, 1, 0, 1>>, <<3, 1, 2, 1>>, <<0, 0, 0, 2>> }

Profile(id) == CHOOSE p \in Profiles : p.id = id

\* The arguments of one add_library_shape call (scale at its default).
Request(p, kind, tx, ty, angle_deg, edge, position) ==
  [p |-> p, kind |-> kind, tx |-> tx, ty |-> ty, angle_deg |-> angle_deg,
   scale |-> 1, edge |-> edge, position |-> position]

WithScale(rq, scale) == [rq EXCEPT !.scale = scale]

\* The calls of add_library_shape made on a panel in Spec: notches along the
\* bottom edge, a cut as large as a panel, a cut inside the panel, a cut far
\* away from it, a malformed profile, and holes.
BuildRequests ==
  { Request(Profile("sq1"), "edge_affecting", 0, 0, 0, "Bottom", pos) :
      pos \in {2, 4} }
  \cup { Request(Profile("bar"), "edge_affecting", 0, 0, 0, "Bottom", pos) :
      pos \in {2, 3} }
  \cup { Request(Profile("full"), "edge_affecting", 0, 0, 0, "Left", 0),
         Request(Profile("sq1"), "edge_affecting", 1, 1, 0, "None", 0),
         Request(Profile("sq1"), "edge_affecting", 9, 0, 0, "None", 0),
         Request(Profile("bad"), "edge_affecting", 0, 0, 0, "Bottom", 2) }
  \cup { Request(Profile("sq1"), "internal_cutout", tx, 1, 0, "None", 0) :
      tx \in {1, 3} }
  \cup { Request(Profile("bad"), "internal_cutout", 1, 1, 0, "None", 0) }

\* The calls of add_library_shape made in ExportSpec: two notches along the
\* bottom edge (the second leaves two fragments of equal area on the 7 x 1
\* panel), a cut whose boolean operation does not complete, a square hole
\* and a circular hole.
ExportRequests ==
  { Request(Profile("sq1"), "edge_affecting", 0, 0, 0, "Bottom", 2),
    Request(Profile("sq1"), "edge_affecting", 0, 0, 0, "Bottom", 3),
    Request(Profile("hard"), "edge_affecting", 0, 0, 0, "Bottom", 0),
    Request(Profile("sq1"), "internal_cutout", 1, 1, 0, "None", 0),
    Request(Profile("disc"), "internal_cutout", 3, 1, 0, "None", 0) }

\* The calls of add_library_shape made in PlaceSpec: every kind, angle,
\* edge and offset, for the profiles that differ in shape, anchor or
\* validity; and a call of each kind for the profiles whose wire is not
\* stored FORWARD (on the 4 x 3 panel the centre of the 2 x 2 profile is
\* already at tx = 1, ty = 2, so the translation is zero).
PlaceRequests ==
  { WithScale(Request(Profile(id), kind, o[1], o[2], angle_deg, edge, o[3]),
              o[4]) :
      id \in {"bar", "off", "bad"}, kind \in Kinds, o \in Offsets,
      angle_deg \in Angles, edge \in Edges }
  \cup { Request(Profile(id), kind, 1, 2, 0, "Bottom", 0) :
           id \in {"rev", "inl", "ext"}, kind \in Kinds }

\* The ShapeAsset rows of the database: the profile stored as canonical
\* BREP ("" for an asset that was never processed) and the stored type.
Assets ==
  { [id |-> "notch", canonical_brep |-> "sq1",
     shape_type |-> "edge_affecting"],
    [id |-> "hole", canonical_brep |-> "sq1",
     shape_type |-> "internal_cutout"],
    [id |-> "raw", canonical_brep |-> "",
     shape_type |-> "internal_cutout"],
    [id |-> "scrap", canonical_brep |-> "loose",
     shape_type |-> "edge_affecting"] }

\* One record of the placed shapes of a request.
ShapeData(shape_id, shape_type, x, y, angle_deg, edge, position) ==
  [object |-> TRUE, shape_id |-> shape_id, shape_type |-> shape_type,
   x |-> x, y |-> y, angle_deg |-> angle_deg, edge |-> edge,
   position |-> position]

\* An element of the list that is not a JSON object (a number, a string):
\* it has no get, so shape_data.get raises AttributeError.
NotAnObject ==
  [ShapeData("None", "None", 0, 0, 0, "None", 0) EXCEPT !.object = FALSE]

\* The records a request can hold: a notch, a hole, an id the database does
\* not know, an asset without canonical BREP, a profile without boundary,
\* and records whose shape_type is not the stored type of the asset: a hole
\* sent as edge-affecting, a notch sent as internal cutout, a hole sent
\* without shape_type ("None" stands for the None of shape_data.get); and
\* an element that is not an object.
PlacedShapes ==
  { ShapeData("notch", "edge_affecting", 0, 0, 0, "Bottom", 2),
    ShapeData("hole", "internal_cutout", 1, 1, 0, "None", 0),
    ShapeData("ghost", "edge_affecting", 0, 0, 0, "Left", 0),
    ShapeData("raw", "internal_cutout", 3, 1, 0, "None", 0),
    ShapeData("scrap", "edge_affecting", 0, 0, 0, "Bottom", 3),
    ShapeData("hole", "edge_affecting", 2, 1, 0, "Bottom", 1),
    ShapeData("notch", "internal_cutout", 1, 2, 0, "None", 0),
    ShapeData("hole", "None", 2, 1, 0, "None", 0),
    NotAnObject }

Views == {"render_brep_view", "export_to_dxf", "export_to_brep"}

ViewRequests ==
  { [view |-> v, shapes |-> sh, i |-> 0, left |-> FALSE] :
      v \in Views,
      sh \in UNION { [1 .. n -> PlacedShapes] : n \in 0 .. MaxViewShapes } }

\* ----------------------------------------------------------------- state
VARIABLES
  width, height, origin,   \* Panel2D.width, Panel2D.height, Panel2D.origin
  edge_cuts,               \* Panel2D._edge_cuts: transformed cut faces
  inner_wires,             \* Panel2D._inner_wires: placed, reversed wires
  last,                    \* the last add_library_shape call and its outcome
  result,                  \* what the last as_shape call returned or raised
  saved,                   \* what the last save_brep call wrote or raised
  dxf,                     \* what the last export_panel_to_dxf call returned
  request,                 \* the view being served, its shapes, its position
  attempts,                \* the placements the view has gone through
  stored,                  \* the content of a BREP file given to a loader
  loaded,                  \* what the last loader call returned or raised
  asset,                   \* a ShapeAsset being imported and its BREP file
  run                      \* an export_panel_to_dxf call in progress

vars == <<width, height, origin, edge_cuts, inner_wires, last, result, saved,
          dxf, request, attempts, stored, loaded, asset, run>>

\* What a behaviour of the panel alone leaves untouched.
elsewhere == <<request, attempts, stored, loaded, asset, run>>

\* ------------------------------------------------------- kernel: regions
RectCells(x0, y0, x1, y1) ==
  { <<x, y>> : x \in x0 .. (x1 - 1), y \in y0 .. (y1 - 1) }

Adjacent(c, d) ==
  \/ c[1] = d[1] /\ (c[2] = d[2] + 1 \/ d[2] = c[2] + 1)
  \/ c[2] = d[2] /\ (c[1] = d[1] + 1 \/ d[1] = c[1] + 1)

RECURSIVE Grow(_, _)
Grow(R, S) ==
  LET N == { c \in R \ S : \E d \in S : Adjacent(c, d) }
  IN  IF N = {} THEN S ELSE Grow(R, S \cup N)

MinCell(R) ==
  CHOOSE c \in R : \A d \in R : c[1] < d[1] \/ (c[1] = d[1] /\ c[2] <= d[2])

\* TopExp_Explorer(shape, TopAbs_FACE): the faces of a compound, in the
\* kernel's (fixed) exploration order.
RECURSIVE FacesOf(_)
FacesOf(R) ==
  IF R = {} THEN << >>
  ELSE LET C == Grow(R, {MinCell(R)}) IN << C >> \o FacesOf(R \ C)

\* GProp_GProps.Mass() of brepgprop.SurfaceProperties
Area(F) == Cardinality(F)

\* The region enclosed by the outer boundary of a face: the face with its
\* holes filled.
Fill(F) ==
  IF F = {} THEN {}
  ELSE LET xs == { c[1] : c \in F }
           ys == { c[2] : c \in F }
           xlo == (CHOOSE x \in xs : \A z \in xs : x <= z) - 1
           xhi == (CHOOSE x \in xs : \A z \in xs : x >= z) + 1
           ylo == (CHOOSE y \in ys : \A z \in ys : y <= z) - 1
           yhi == (CHOOSE y \in ys : \A z \in ys : y >= z) + 1
           box == RectCells(xlo, ylo, xhi + 1, yhi + 1)
           outside == Grow(box \ F, { <<xlo, ylo>> })
       IN  box \ outside

\* TopExp_Explorer(face, TopAbs_WIRE): the outer boundary first, then one
\* wire per hole.  A wire is given by the region it encloses.
WiresOf(F) ==
  IF F = {} THEN << >> ELSE << Fill(F) >> \o FacesOf(Fill(F) \ F)

\* ------------------------------------------------------- kernel: edges
\* The unit segments of the boundary of a region, each directed with the
\* region on its left.
UnitEdges(R) ==
  { << <<c[1], c[2]>>, <<c[1] + 1, c[2]>> >> :
      c \in { d \in R : <<d[1], d[2] - 1>> \notin R } }
  \cup { << <<c[1] + 1, c[2]>>, <<c[1] + 1, c[2] + 1>> >> :
      c \in { d \in R : <<d[1] + 1, d[2]>> \notin R } }
  \cup { << <<c[1] + 1, c[2] + 1>>, <<c[1], c[2] + 1>> >> :
      c \in { d \in R : <<d[1], d[2] + 1>> \notin R } }
  \cup { << <<c[1], c[2] + 1>>, <<c[1], c[2]>> >> :
      c \in { d \in R : <<d[1] - 1, d[2]>> \notin R } }

\* The boundary of a region without holes, followed from the edge e until it
\* closes.
RECURSIVE Follow(_, _, _)
Follow(E, e, acc) ==
  LET rest == E \ {e}
      nexts == { f \in rest : f[1] = e[2] }
  IN  IF nexts = {} THEN Append(acc, e)
      ELSE Follow(rest, CHOOSE f \in nexts : TRUE, Append(acc, e))

Direction(e) == <<e[2][1] - e[1][1], e[2][2] - e[1][2]>>

\* Consecutive unit segments on one line make one line edge.
RECURSIVE Segments(_, _, _)
Segments(units, i, acc) ==
  IF i > Len(units) THEN acc
  ELSE IF acc # << >>
          /\ Direction(units[i]) = Direction(units[i - 1])
       THEN Segments(units, i + 1,
                     [acc EXCEPT ![Len(acc)] = << acc[Len(acc)][1], units[i][2] >>])
       ELSE Segments(units, i + 1, Append(acc, units[i]))

Doubled(pt) == <<2 * pt[1], 2 * pt[2]>>

\* TopExp_Explorer(wire, TopAbs_EDGE) on the outer wire of a face: its line
\* edges in order, from the lowest corner of its leftmost column, each edge
\* with the start and the end point of its curve (doubled coordinates).
OuterEdges(R) ==
  IF R = {} THEN << >>
  ELSE LET m == MinCell(R)
           first == << <<m[1], m[2]>>, <<m[1] + 1, m[2]>> >>
           segs == Segments(Follow(UnitEdges(R), first, << >>), 1, << >>)
       IN  [i \in 1 .. Len(segs) |->
              [start |-> Doubled(segs[i][1]), end |-> Doubled(segs[i][2])]]

\* TopExp_Explorer(wire, TopAbs_EDGE) on an inner wire: the four line edges
\* of a polygon, or the one closed edge of a circle, whose curve starts and
\* ends at the same point.  Reversing a wire changes neither the order of
\* its edges nor the parameter range of their curves.
HoleEdges(wr) ==
  IF wr.curve = "circle"
  THEN LET pt == <<wr.x1, (wr.y0 + wr.y1) \div 2>>
       IN  << [start |-> pt, end |-> pt] >>
  ELSE << [start |-> <<wr.x0, wr.y0>>, end |-> <<wr.x1, wr.y0>>],
          [start |-> <<wr.x1, wr.y0>>, end |-> <<wr.x1, wr.y1>>],
          [start |-> <<wr.x1, wr.y1>>, end |-> <<wr.x0, wr.y1>>],
          [start |-> <<wr.x0, wr.y1>>, end |-> <<wr.x0, wr.y0>>] >>

\* TopExp_Explorer(face, TopAbs_WIRE) on a built face, every wire given by
\* its edges: the outer wire, then the holes in the order they were added.
FaceWires(face) ==
  << OuterEdges(face.outer) >>
    \o [i \in 1 .. Len(face.holes) |-> HoleEdges(face.holes[i])]

\* ------------------------------------------------------- kernel: shapes
\* Bnd_Box of a wire or face: [x0, y0, x1, y1].
BBox(x0, y0, x1, y1) == [x0 |-> x0, y0 |-> y0, x1 |-> x1, y1 |-> y1]

\* The cells covered by a cut face (an edge cut is kept by its bounding
\* rectangle in millimetres).
CutCells(c) == RectCells(c.x0, c.y0, c.x1, c.y1)

\* The cells a wire in doubled coordinates touches (closed rectangle).
TouchedCells(wr) ==
  { <<i, j>> \in ((wr.x0 \div 2) - 1 .. (wr.x1 \div 2) + 1)
               \X ((wr.y0 \div 2) - 1 .. (wr.y1 \div 2) + 1) :
      /\ 2 * i <= wr.x1 /\ 2 * i + 2 >= wr.x0
      /\ 2 * j <= wr.y1 /\ 2 * j + 2 >= wr.y0 }

WiresMeet(a, b) ==
  /\ a.x0 <= b.x1 /\ b.x0 <= a.x1
  /\ a.y0 <= b.y1 /\ b.y0 <= a.y1

\* MakeFace as it would be if the loop over the inner wires stopped at the
\* first wire that cannot be added.
RECURSIVE GoodPrefix(_)
GoodPrefix(wires) ==
  IF wires = << >> \/ ~Head(wires).ok THEN << >>
  ELSE << Head(wires) >> \o GoodPrefix(Tail(wires))

MakeFace_stop_at_bad_wire(outer, wires) ==
  [outer |-> outer, holes |-> GoodPrefix(wires)]

\* BRepBuilderAPI_MakeFace(outer) followed by maker.Add(w) for every inner
\* wire, then maker.Face(): the face owns the outer wire and all the wires
\* added, in order.
MakeFace(outer, wires) == [outer |-> outer, holes |-> wires]

\* BRepCheck_Analyzer(face, True).IsValid() for a face with holes: every
\* wire is well formed, every hole is reversed and strictly inside the outer
\* boundary, and no two holes meet.
IsValid(face) ==
  /\ face.outer # {}
  /\ \A i \in 1 .. Len(face.holes) :
       /\ face.holes[i].ok
       /\ face.holes[i].ori = "REVERSED"
       /\ TouchedCells(face.holes[i]) \subseteq face.outer
  /\ \A i, j \in 1 .. Len(face.holes) :
       i # j => ~WiresMeet(face.holes[i], face.holes[j])

\* The boolean operation as it would be with BRepAlgoAPI_Common in place of
\* BRepAlgoAPI_Cut.
BRepAlgoAPI_Common(current_face, cut_face) ==
  [done |-> cut_face.done,
   shape |-> IF cut_face.done
             THEN FacesOf(current_face \cap CutCells(cut_face)) ELSE << >>]

\* BRepAlgoAPI_Cut(current_face, cut_face): IsDone() and Shape(), the
\* compound of the faces left.  Whether the operation completes is the
\* kernel's answer for the tool (the done field of the cut face).
BRepAlgoAPI_Cut(current_face, cut_face) ==
  [done |-> cut_face.done,
   shape |-> IF cut_face.done
             THEN FacesOf(current_face \ CutCells(cut_face)) ELSE << >>]

\* ------------------------------------------------------ Panel2D helpers
make_outer_rect_wire(w, h, ox, oy) == RectCells(ox, oy, ox + w, oy + h)

base_rect_face(w, h, ox, oy) == make_outer_rect_wire(w, h, ox, oy)

RECURSIVE largest_loop(_, _, _, _)

\* The loop as it would be if a later item of equal area replaced the best.
largest_loop_last_tie(items, i, best, best_area) ==
  IF i > Len(items) THEN [best |-> best, best_area |-> best_area]
  ELSE IF Area(items[i]) >= best_area
       THEN largest_loop(items, i + 1, items[i], Area(items[i]))
       ELSE largest_loop(items, i + 1, best, best_area)

\* The loop of _largest_face and of _largest_wire_by_area_proxy: an item
\* replaces the best one only when its area is strictly larger.
largest_loop(items, i, best, best_area) ==
  IF i > Len(items) THEN [best |-> best, best_area |-> best_area]
  ELSE IF Area(items[i]) > best_area
       THEN largest_loop(items, i + 1, items[i], Area(items[i]))
       ELSE largest_loop(items, i + 1, best, best_area)

\* _largest_face as it would be if it kept every face of the cut result.
largest_face_keep_all(shp) ==
  IF shp = << >> THEN [raised |-> TRUE, face |-> {}]
  ELSE [raised |-> FALSE,
        face |-> UNION { shp[i] : i \in 1 .. Len(shp) }]

\* _largest_face: the first face of strictly largest area; raises ValueError
\* when the shape has no face.
largest_face(shp) ==
  LET r == largest_loop(shp, 1, {}, -1)
  IN  IF r.best_area = -1 THEN [raised |-> TRUE, face |-> {}]
      ELSE [raised |-> FALSE, face |-> r.best]

\* _largest_wire_by_area_proxy: the first wire whose temporary face has the
\* strictly largest area; raises ValueError when no wire could be evaluated.
largest_wire_by_area_proxy(wires) ==
  LET r == largest_loop(wires, 1, {}, -1)
  IN  IF r.best_area = -1 THEN [raised |-> TRUE, wire |-> {}]
      ELSE [raised |-> FALSE, wire |-> r.best]

RECURSIVE cut_loop(_, _, _)

\* The loop as it would be if it left after the first cut applied.
cut_loop_first_only(current_face, cuts, i) ==
  IF i > Len(cuts) THEN [raised |-> FALSE, face |-> current_face]
  ELSE LET cut_op == BRepAlgoAPI_Cut(current_face, cuts[i])
       IN  IF ~cut_op.done THEN [raised |-> FALSE, face |-> current_face]
           ELSE LET lf == largest_face(cut_op.shape)
                IN  IF lf.raised THEN [raised |-> TRUE, face |-> {}]
                    ELSE [raised |-> FALSE, face |-> lf.face]

\* The loop as it would be if a cut that is not done ended it.
cut_loop_stop_on_failure(current_face, cuts, i) ==
  IF i > Len(cuts) THEN [raised |-> FALSE, face |-> current_face]
  ELSE LET cut_op == BRepAlgoAPI_Cut(current_face, cuts[i])
       IN  IF ~cut_op.done THEN [raised |-> FALSE, face |-> current_face]
           ELSE LET lf == largest_face(cut_op.shape)
                IN  IF lf.raised THEN [raised |-> TRUE, face |-> {}]
                    ELSE cut_loop(lf.face, cuts, i + 1)

\* The loop of _outer_wire_after_edge_cuts over self._edge_cuts.
cut_loop(current_face, cuts, i) ==
  IF i > Len(cuts) THEN [raised |-> FALSE, face |-> current_face]
  ELSE LET cut_op == BRepAlgoAPI_Cut(current_face, cuts[i])
       IN  IF ~cut_op.done THEN cut_loop(current_face, cuts, i + 1)
           ELSE LET lf == largest_face(cut_op.shape)
                IN  IF lf.raised THEN [raised |-> TRUE, face |-> {}]
                    ELSE cut_loop(lf.face, cuts, i + 1)

outer_wire_after_edge_cuts(w, h, ox, oy, cuts) ==
  LET r == cut_loop(base_rect_face(w, h, ox, oy), cuts, 1)
  IN  IF r.raised THEN [raised |-> TRUE, wire |-> {}]
      ELSE LET wires == WiresOf(r.face)
           IN  IF wires = << >>
               THEN [raised |-> FALSE, wire |-> make_outer_rect_wire(w, h, ox, oy)]
               ELSE largest_wire_by_area_proxy(wires)

\* _validate as it would be if it never raised.
validate_never_raises(shape) == FALSE

\* _validate: TRUE when it raises ValueError.
validate(shape) == ~IsValid(shape)

Raised == [status |-> "raise", outer |-> {}, holes |-> << >>]
Returned(face) == [status |-> "ok", outer |-> face.outer, holes |-> face.holes]
NoResult == [status |-> "none", outer |-> {}, holes |-> << >>]

\* as_shape: the face returned, or the exception that escapes.
as_shape(w, h, ox, oy, cuts, inner) ==
  IF Len(cuts) = 0
  THEN LET face == MakeFace(make_outer_rect_wire(w, h, ox, oy), inner)
       IN  IF validate(face) THEN Raised ELSE Returned(face)
  ELSE LET outer_wire == outer_wire_after_edge_cuts(w, h, ox, oy, cuts)
       IN  IF outer_wire.raised THEN Raised
           ELSE LET face == MakeFace(outer_wire.wire, inner)
                IN  IF validate(face) THEN Raised ELSE Returned(face)

\* save_brep: as_shape, _validate again, breptools_Write (writable is its
\* answer for the path: when it returns False RuntimeError is raised and
\* nothing is saved); every exception is turned into RuntimeError.
save_brep(w, h, ox, oy, cuts, inner, writable) ==
  LET shape == as_shape(w, h, ox, oy, cuts, inner)
  IN  IF shape.status = "raise" THEN Raised
      ELSE IF validate(MakeFace(shape.outer, shape.holes)) THEN Raised
      ELSE IF ~writable THEN Raised
      ELSE shape

\* ---------------------------------------------------- export_panel_to_dxf
\* The loop over the edges of one wire: the start point and the end point of
\* every edge, appended in order.
RECURSIVE edge_loop(_, _, _)
edge_loop(edges, i, points) ==
  IF i > Len(edges) THEN points
  ELSE edge_loop(edges, i + 1,
                 Append(Append(points, edges[i].start), edges[i].end))

\* The removal of duplicates as it would be if it kept every point.
unique_points_keep_all(points) == points

\* "Remove duplicate consecutive points": a point is kept when it is the
\* first or differs from the point before it in the list.
unique_points(points) ==
  LET kept == SelectSeq([i \in 1 .. Len(points) |-> i],
                        LAMBDA i : i = 1 \/ points[i] # points[i - 1])
  IN  [k \in 1 .. Len(kept) |-> points[kept[k]]]

\* The loop over the wires of the panel shape: msp is the list of the
\* polylines added to the modelspace so far.
RECURSIVE wire_loop(_, _, _)
wire_loop(wires, i, msp) ==
  IF i > Len(wires) THEN msp
  ELSE LET points == edge_loop(wires[i], 1, << >>)
       IN  IF points # << >> /\ Len(unique_points(points)) > 1
           THEN wire_loop(wires, i + 1, Append(msp, unique_points(points)))
           ELSE wire_loop(wires, i + 1, msp)

NoDxf == [status |-> "none", polylines |-> << >>]
DxfError == [status |-> "raise", polylines |-> << >>]

\* export_panel_to_dxf: the polylines of the document returned, or the
\* RuntimeError every exception is turned into.
export_panel_to_dxf(w, h, ox, oy, cuts, inner) ==
  LET panel_shape == as_shape(w, h, ox, oy, cuts, inner)
  IN  IF panel_shape.status = "raise" THEN DxfError
      ELSE [status |-> "ok",
            polylines |-> wire_loop(FaceWires(panel_shape), 1, << >>)]

\* ------------------------------------------- export_panel_to_dxf, by step
\* An edge of a wire of the panel shape: its end points, and whether
\* BRepAdaptor_Curve can read its curve (readable = FALSE: reading raises).
Edge(start, end, readable) ==
  [start |-> start, end |-> end, readable |-> readable]

\* The wires a panel shape can hold: a square of four line edges, a circle
\* of one closed edge, a triangle whose second edge cannot be read, and a
\* single edge that cannot be read.
DxfWires ==
  { << Edge(<<0, 0>>, <<2, 0>>, TRUE), Edge(<<2, 0>>, <<2, 2>>, TRUE),
       Edge(<<2, 2>>, <<0, 2>>, TRUE), Edge(<<0, 2>>, <<0, 0>>, TRUE) >>,
    << Edge(<<1, 1>>, <<1, 1>>, TRUE) >>,
    << Edge(<<0, 0>>, <<2, 0>>, TRUE), Edge(<<2, 0>>, <<2, 2>>, FALSE),
       Edge(<<2, 2>>, <<0, 0>>, TRUE) >>,
    << Edge(<<1, 1>>, <<1, 1>>, FALSE) >> }

DxfShapes == UNION { [1 .. n -> DxfWires] : n \in 1 .. MaxWires }

\* The state of one export_panel_to_dxf call: where it is ("none" before the
\* call, "wires" at the test of the wire loop, "edges" at the test of the
\* edge loop, "edge" in the body of the edge loop, "ok" when the document is
\* returned, "raise" when RuntimeError is raised), whether panel.as_shape() returns, the wires of the shape, the
\* positions of the two explorers, the points of the wire and the polylines
\* of the modelspace.
Run(status, built, wires, w, e, points, msp) ==
  [status |-> status, built |-> built, wires |-> wires, w |-> w, e |-> e,
   points |-> points, msp |-> msp]

NoRun == Run("none", TRUE, << >>, 0, 0, << >>, << >>)

\* -------------------------------------------------------- profile loader
\* The content of a stored BREP file: the top-level items of its compound.
\* "wire" is a closed polygon wire, "face" a face bounded by one, "plane" a
\* face without boundary, "circle" a loose periodic edge, "line" a loose
\* non-periodic edge.
ItemKinds == {"wire", "face", "plane", "circle", "line"}

Indices(shp) == [i \in 1 .. Len(shp) |-> i]

\* TopExp_Explorer(shp, TopAbs_WIRE): the wires found, each named by the
\* item it belongs to.
ExploreWires(shp) ==
  LET found == SelectSeq(Indices(shp), LAMBDA i : shp[i] \in {"wire", "face"})
  IN  [k \in 1 .. Len(found) |-> [item |-> found[k], via |-> shp[found[k]]]]

\* TopExp_Explorer(shp, TopAbs_FACE)
ExploreFaces(shp) ==
  SelectSeq(Indices(shp), LAMBDA i : shp[i] \in {"face", "plane"})

\* TopExp_Explorer(face, TopAbs_WIRE) for the face that is item i.
FaceItemWires(shp, i) ==
  IF shp[i] = "face" THEN << [item |-> i, via |-> "face"] >> ELSE << >>

\* TopExp_Explorer(shp, TopAbs_EDGE): one record per edge found; a polygon
\* has four line edges.
RECURSIVE ExploreEdges(_, _)
ExploreEdges(shp, i) ==
  IF i > Len(shp) THEN << >>
  ELSE LET polygon == [k \in 1 .. 4 |-> [item |-> i, periodic |-> FALSE]]
           own == CASE shp[i] \in {"wire", "face"} -> polygon
                    [] shp[i] = "circle" -> << [item |-> i, periodic |-> TRUE] >>
                    [] shp[i] = "line" -> << [item |-> i, periodic |-> FALSE] >>
                    [] OTHER -> << >>
       IN  own \o ExploreEdges(shp, i + 1)

NullWire == [item |-> 0, via |-> "null"]
LoadError == [raised |-> TRUE, wire |-> NullWire]
Loaded(wire) == [raised |-> FALSE, wire |-> wire]

\* Panel2D._profile_wire_from_shape: the first wire found; otherwise the
\* wires of the largest face (a face that reaches this point has no wire,
\* whichever is the largest); ValueError when there is no face or no wire.
profile_wire_from_shape(shp) ==
  LET exp == ExploreWires(shp)
  IN  IF exp # << >> THEN Loaded(exp[1])
      ELSE LET faces == ExploreFaces(shp)
           IN  IF faces = << >> THEN LoadError
               ELSE LET wires == FaceItemWires(shp, faces[1])
                    IN  IF wires = << >> THEN LoadError
                        ELSE Loaded(wires[1])

\* ShapeAsset._wire_from_shape_relaxed: 1) a wire found directly, 2) the
\* boundary of the first face, 3) a single periodic edge wrapped into a
\* wire; ValueError otherwise.
wire_from_shape_relaxed(shape) ==
  LET expw == ExploreWires(shape)
      expf == ExploreFaces(shape)
      wexp == IF expf = << >> THEN << >> ELSE FaceItemWires(shape, expf[1])
      edges == ExploreEdges(shape, 1)
  IN  IF expw # << >> THEN Loaded(expw[1])
      ELSE IF expf # << >> /\ wexp # << >> THEN Loaded(wexp[1])
      ELSE IF Len(edges) = 1 /\ edges[1].periodic
           THEN Loaded([item |-> edges[1].item, via |-> "edge"])
      ELSE LoadError

\* The files a loader can be given.
StoredShapes == UNION { [1 .. n -> ItemKinds] : n \in 0 .. MaxItems }

\* ---------------------------------------------------- add_library_shape
ProfileBounds(p) == BBox(p.x0, p.y0, p.x0 + p.w, p.y0 + p.h)

\* _rotate_wire_around_center: rotation about the minimum corner of the
\* wire's bounding box; the bounding box of the rotated wire.
rotate_wire_around_center(b, angle_deg) ==
  LET w == b.x1 - b.x0
      h == b.y1 - b.y0
  IN  CASE angle_deg = 0   -> b
        [] angle_deg = 90  -> BBox(b.x0 - h, b.y0, b.x0, b.y0 + w)
        [] angle_deg = 180 -> BBox(b.x0 - w, b.y0 - h, b.x0, b.y0)
        [] angle_deg = 270 -> BBox(b.x0, b.y0 - w, b.x0 + h, b.y0)

\* _translate_shape
translate_shape(b, tx, ty) ==
  IF tx = 0 /\ ty = 0 THEN b
  ELSE BBox(b.x0 + tx, b.y0 + ty, b.x1 + tx, b.y1 + ty)

\* Rotation and renormalisation of the wire of an edge-affecting placement:
\* the bounds nxmin, nymin, nxmax, nymax.
normalized_bounds(b, angle_deg) ==
  IF angle_deg # 0
  THEN LET r == rotate_wire_around_center(b, angle_deg)
       IN  IF r.x0 < 0 \/ r.y0 < 0
           THEN LET normalize_x == IF r.x0 < 0 THEN -r.x0 ELSE 0
                    normalize_y == IF r.y0 < 0 THEN -r.y0 ELSE 0
                IN  BBox(r.x0 + normalize_x, r.y0 + normalize_y,
                         r.x1 + normalize_x, r.y1 + normalize_y)
           ELSE r
  ELSE b

\* The wire of an internal cutout as it would be if it were rotated like
\* the wire of an edge-affecting placement.
original_wire_bounds_rotated(b, angle_deg) == normalized_bounds(b, angle_deg)

\* The bounds of the wire an internal cutout is positioned by: those of the
\* wire as loaded, whatever angle_deg is ("no rotation or scaling").
original_wire_bounds(b, angle_deg) == b

\* The edge mapping as it would be if Right and Top used the profile's
\* other effective dimension.
edge_position_swapped(edge, position, tx, ty, w, h, effective_width, effective_height) ==
  CASE edge = "Left"   -> <<0, position>>
    [] edge = "Right"  -> <<w - effective_height, position>>
    [] edge = "Top"    -> <<position, h - effective_width>>
    [] edge = "Bottom" -> <<position, 0>>
    [] OTHER           -> <<tx, ty>>

\* The translation of an edge-affecting placement from edge and position.
edge_position(edge, position, tx, ty, w, h, effective_width, effective_height) ==
  CASE edge = "Left"   -> <<0, position>>
    [] edge = "Right"  -> <<w - effective_width, position>>
    [] edge = "Top"    -> <<position, h - effective_height>>
    [] edge = "Bottom" -> <<position, 0>>
    [] OTHER           -> <<tx, ty>>

\* The translation of an internal cutout as it would be with ty measured
\* upwards from the bottom edge.
center_translation2_y_up(b, tx, ty, h, ox, oy) ==
  <<2 * (ox + tx) - (b.x0 + b.x1), 2 * (oy + ty) - (b.y0 + b.y1)>>

\* The translation of an internal cutout, in doubled coordinates: the centre
\* of the wire's bounding box goes to (origin x + tx, origin y + height - ty).
center_translation2(b, tx, ty, h, ox, oy) ==
  LET wire_center_x2 == b.x0 + b.x1
      wire_center_y2 == b.y0 + b.y1
      target_center_x2 == 2 * (ox + tx)
      target_center_y2 == 2 * (oy + h - ty)
  IN  <<target_center_x2 - wire_center_x2, target_center_y2 - wire_center_y2>>

\* Reverse as it would be if it left the orientation as it is.
Reverse_keep(ori) == ori

\* TopoDS_Shape.Reverse(): FORWARD and REVERSED are exchanged, INTERNAL and
\* EXTERNAL are left as they are.
Reverse(ori) ==
  CASE ori = "FORWARD" -> "REVERSED"
    [] ori = "REVERSED" -> "FORWARD"
    [] OTHER -> ori

\* The gate as it would be if the analyzer accepted every face.
BRepCheck_Analyzer_accept_all(shape) == TRUE

\* BRepCheck_Analyzer(shape, True).IsValid() for a transformed cut face: the
\* kernel's answer for the geometry of the profile.
BRepCheck_Analyzer(shape) == shape.ok

NoBox == BBox(0, 0, 0, 0)

CallInfo(op, rq, eff_w, eff_h, used, placed, outcome) ==
  [op |-> op, profile |-> rq.p.id, kind |-> rq.kind, tx |-> rq.tx,
   ty |-> rq.ty, angle_deg |-> rq.angle_deg, scale |-> rq.scale,
   edge |-> rq.edge,
   position |-> rq.position, effective_width |-> eff_w,
   effective_height |-> eff_h, used |-> used, placed |-> placed,
   outcome |-> outcome]

NoRequest == Request([id |-> "none"], "none", 0, 0, 0, "None", 0)
NoCall(op) == CallInfo(op, NoRequest, 0, 0, <<0, 0>>, NoBox, "none")

\* add_library_shape: the two lists after the call and what the call did
\* (outcome "raised": the exception of the profile loader escapes).
add_library_shape(w, h, ox, oy, cuts, inner, rq) ==
  LET b == ProfileBounds(rq.p)
  IN  IF profile_wire_from_shape(rq.p.shape).raised
      THEN [edge_cuts |-> cuts, inner_wires |-> inner,
            info |-> CallInfo("add", rq, 0, 0, <<0, 0>>, NoBox, "raised")]
      ELSE
      IF rq.kind = "internal_cutout"
      THEN LET bw == original_wire_bounds(b, rq.angle_deg)
               t2 == center_translation2(bw, rq.tx, rq.ty, h, ox, oy)
               moved == translate_shape(
                          BBox(2 * bw.x0, 2 * bw.y0, 2 * bw.x1, 2 * bw.y1),
                          t2[1], t2[2])
               placed_wire == [x0 |-> moved.x0, y0 |-> moved.y0,
                               x1 |-> moved.x1, y1 |-> moved.y1,
                               ori |-> Reverse(rq.p.ori), ok |-> rq.p.ok,
                               curve |-> rq.p.curve]
           IN  [edge_cuts |-> cuts,
                inner_wires |-> Append(inner, placed_wire),
                info |-> CallInfo("add", rq, 0, 0, t2, moved, "registered")]
      ELSE LET n == normalized_bounds(b, rq.angle_deg)
               effective_width == n.x1 - n.x0
               effective_height == n.y1 - n.y0
               t == edge_position(rq.edge, rq.position, rq.tx, rq.ty, w, h,
                                  effective_width, effective_height)
               moved == translate_shape(n, t[1], t[2])
               transformed_edge_shape_face ==
                 [x0 |-> moved.x0, y0 |-> moved.y0,
                  x1 |-> moved.x1, y1 |-> moved.y1, ok |-> rq.p.ok,
                  done |-> rq.p.done, ori |-> rq.p.ori]
           IN  IF ~BRepCheck_Analyzer(transformed_edge_shape_face)
               THEN [edge_cuts |-> cuts, inner_wires |-> inner,
                     info |-> CallInfo("add", rq, effective_width,
                                       effective_height, t, moved, "dropped")]
               ELSE [edge_cuts |-> Append(cuts, transformed_edge_shape_face),
                     inner_wires |-> inner,
                     info |-> CallInfo("add", rq, effective_width,
                                       effective_height, t, moved,
                                       "registered")]

\* -------------------------------------------------------- shape import
Orientations == {"FORWARD", "REVERSED", "INTERNAL", "EXTERNAL"}

\* What the import pipeline can meet: "no_face" fails before the canonical
\* BREP is checked (steps 1 to 5), "no_preview" fails after it (step 6).
Pipelines == {"ok", "no_face", "no_preview"}

\* The BREP file at brep_path and the kernel's answers for it: whether it
\* can be read, the items of its shape, the orientation of the wire the
\* relaxed loader extracts, whether BRepCheck_Wire reports no error for it,
\* whether the face built from it is valid, whether the face built from the
\* reversed wire is done and valid, and whether the file can be written.
ImportFiles ==
  [readable : BOOLEAN,
   shape : { <<"face">>, <<"circle">>, <<"line">> },
   ori : Orientations,
   closed : BOOLEAN,
   face_valid : BOOLEAN,
   remade : BOOLEAN,
   writable : BOOLEAN,
   pipeline : Pipelines]

NoFile ==
  [readable |-> FALSE, shape |-> << >>, ori |-> "FORWARD", closed |-> FALSE,
   face_valid |-> FALSE, remade |-> FALSE, writable |-> FALSE,
   pipeline |-> "ok"]

\* canonicalize_wire_orientation returned: the value, the orientation of the
\* wire at return ("none" when no wire was extracted), whether the wire
\* passed the closure check, whether the file was written back.
Canonicalized(returned, orientation, checked, written) ==
  [returned |-> returned, orientation |-> orientation, checked |-> checked,
   written |-> written]

\* ShapeAsset.canonicalize_wire_orientation(brep_path): every exception is
\* caught and turned into False.
canonicalize_wire_orientation(file) ==
  IF ~file.readable THEN Canonicalized(FALSE, "none", FALSE, FALSE)
  ELSE IF wire_from_shape_relaxed(file.shape).raised
  THEN Canonicalized(FALSE, "none", FALSE, FALSE)
  ELSE IF ~file.closed /\ ~file.face_valid
  THEN Canonicalized(FALSE, file.ori, FALSE, FALSE)
  ELSE IF file.ori # "FORWARD"
  THEN IF ~file.remade
       THEN Canonicalized(FALSE, Reverse(file.ori), TRUE, FALSE)
       ELSE IF ~file.writable
       THEN Canonicalized(FALSE, Reverse(file.ori), TRUE, FALSE)
       ELSE Canonicalized(TRUE, Reverse(file.ori), TRUE, TRUE)
  ELSE Canonicalized(TRUE, file.ori, TRUE, FALSE)

NotCanonicalized == Canonicalized(FALSE, "none", FALSE, FALSE)

\* process_shape_asset(shape_asset): raised (RuntimeError) or not, the
\* canonical_brep of the asset afterwards, and what the canonicalization of
\* step 5.5 returned (called = FALSE when the pipeline failed before it).
process_shape_asset(shape_asset) ==
  IF shape_asset.file.pipeline = "no_face"
  THEN [raised |-> TRUE, canonical_brep |-> shape_asset.canonical_brep,
        called |-> FALSE, canon |-> NotCanonicalized]
  ELSE LET canon == canonicalize_wire_orientation(shape_asset.file)
       IN  IF ~canon.returned \/ shape_asset.file.pipeline = "no_preview"
           THEN [raised |-> TRUE,
                 canonical_brep |-> shape_asset.canonical_brep,
                 called |-> TRUE, canon |-> canon]
           ELSE [raised |-> FALSE, canonical_brep |-> "shapes/brep",
                 called |-> TRUE, canon |-> canon]

\* A ShapeAsset: its file, its canonical_brep field ("" when never set),
\* and the last call made on it with its outcome.
Asset(file, canonical_brep, call, raised, canon) ==
  [file |-> file, canonical_brep |-> canonical_brep, call |-> call,
   raised |-> raised, canon |-> canon]

NoAsset == Asset(NoFile, "", "none", FALSE, NotCanonicalized)

\* ------------------------------------------------------------------ views
PanelOf(w, h, ox, oy, cuts, inner) ==
  [width |-> w, height |-> h, ox |-> ox, oy |-> oy,
   edge_cuts |-> cuts, inner_wires |-> inner]

\* A placement that raised: the panel as it was.
PlaceError(panel) ==
  [raised |-> TRUE, edge_cuts |-> panel.edge_cuts,
   inner_wires |-> panel.inner_wires,
   info |-> [NoCall("add") EXCEPT !.outcome = "raised"]]

\* ShapeAsset.objects.get(id=shape_id): DoesNotExist for an unknown id.
objects_get(shape_id) ==
  IF \E a \in Assets : a.id = shape_id
  THEN [raised |-> FALSE, asset |-> CHOOSE a \in Assets : a.id = shape_id]
  ELSE [raised |-> TRUE, asset |-> [id |-> shape_id]]

\* What a call of panel.add_library_shape leaves to the caller: whether it
\* raised, and the lists of the panel after it.
PlaceResult(r) ==
  [raised |-> r.info.outcome = "raised", edge_cuts |-> r.edge_cuts,
   inner_wires |-> r.inner_wires, info |-> r.info]

\* ShapeAsset.add_to_panel2d: ValueError without canonical BREP, otherwise
\* panel.add_library_shape with kind = self.shape_type.
add_to_panel2d(self, panel, tx, ty, angle_deg, scale, edge, position) ==
  IF self.canonical_brep = "" THEN PlaceError(panel)
  ELSE CHOOSE out \in
         { PlaceResult(add_library_shape(pn.width, pn.height, pn.ox, pn.oy,
                                         pn.edge_cuts, pn.inner_wires, rq)) :
             pn \in {panel},
             rq \in {WithScale(Request(Profile(self.canonical_brep),
                                       self.shape_type, tx, ty, angle_deg,
                                       edge, position), scale)} } : TRUE

\* The body of the try statement as it would be if the placement were
\* registered under the shape_type of the request record.
place_shape_by_request(panel, shape_data) ==
  LET got == objects_get(shape_data.shape_id)
  IN  IF ~shape_data.object THEN PlaceError(panel)
      ELSE IF got.raised THEN PlaceError(panel)
      ELSE IF shape_data.shape_type = "edge_affecting"
      THEN add_to_panel2d([got.asset EXCEPT
                             !.shape_type = shape_data.shape_type],
                          panel, 0, 0, shape_data.angle_deg, 1,
                          shape_data.edge, shape_data.position)
      ELSE add_to_panel2d([got.asset EXCEPT
                             !.shape_type = shape_data.shape_type],
                          panel, shape_data.x, shape_data.y,
                          shape_data.angle_deg, 1, "None", 0)

\* The body of the try statement of the loop over the placed shapes:
\* shape_data.get raises for an element that is not an object,
\* objects.get for an unknown id, add_to_panel2d as above.
place_shape(panel, shape_data) ==
  LET got == objects_get(shape_data.shape_id)
  IN  IF ~shape_data.object THEN PlaceError(panel)
      ELSE IF got.raised THEN PlaceError(panel)
      ELSE IF shape_data.shape_type = "edge_affecting"
      THEN add_to_panel2d(got.asset, panel, 0, 0, shape_data.angle_deg, 1,
                          shape_data.edge, shape_data.position)
      ELSE add_to_panel2d(got.asset, panel, shape_data.x, shape_data.y,
                          shape_data.angle_deg, 1, "None", 0)

\* The loop as it would be if the except clause always left it.
after_iteration_break(i, n, raised, bound) ==
  [i |-> IF raised THEN n ELSE i + 1, left |-> raised /\ ~bound]

\* shape_id is bound when the except clause of the iteration on record
\* i + 1 formats its message: the first statement of the try assigns it, in
\* this iteration when the record is an object, or in an earlier one (the
\* loop is still running after the first record only if it was).
shape_id_bound(shapes, i) == i >= 1 \/ shapes[i + 1].object

\* After the iteration on record i + 1 of n: the number of records gone
\* through, and whether the loop was left. The except clause prints
\* shape_id and continues with the next record; when shape_id is not bound
\* the print raises UnboundLocalError, which leaves the loop and the try
\* statement of the view (HTTP 500, nothing is built).
after_iteration(i, n, raised, bound) ==
  [i |-> i + 1, left |-> raised /\ ~bound]

\* ---------------------------------------------------------------- actions
NoView == [view |-> "none", shapes |-> << >>, i |-> 0, left |-> FALSE]
NoLoad == [by |-> "none", raised |-> FALSE, wire |-> NullWire]

\* Panel2D(width, height, origin): both lists empty, nothing built yet.
Constructed(pn) ==
  /\ width = pn.width
  /\ height = pn.height
  /\ origin = <<pn.ox, pn.oy>>
  /\ edge_cuts = << >>
  /\ inner_wires = << >>
  /\ last = NoCall("init")
  /\ result = NoResult
  /\ saved = NoResult
  /\ dxf = NoDxf

Init ==
  /\ \E pn \in Panels : Constructed(pn)
  /\ request = NoView
  /\ attempts = << >>
  /\ stored = << >>
  /\ loaded = NoLoad
  /\ asset = NoAsset
  /\ run = NoRun

PlaceInit ==
  /\ \E pn \in PlacePanels : Constructed(pn)
  /\ request = NoView
  /\ attempts = << >>
  /\ stored = << >>
  /\ loaded = NoLoad
  /\ asset = NoAsset
  /\ run = NoRun

\* add_library_shape as it would be if registering an internal cutout
\* emptied the list of edge cuts.
AddLibraryShape_resetting(rq) ==
  LET r == add_library_shape(width, height, origin[1], origin[2],
                             edge_cuts, inner_wires, rq)
  IN  /\ edge_cuts' = IF Len(r.inner_wires) > Len(inner_wires)
                      THEN << >> ELSE r.edge_cuts
      /\ inner_wires' = r.inner_wires
      /\ last' = r.info
      /\ result' = NoResult
      /\ saved' = NoResult
      /\ dxf' = NoDxf
      /\ UNCHANGED <<width, height, origin, elsewhere>>

AddLibraryShape(rq) ==
  LET r == add_library_shape(width, height, origin[1], origin[2],
                             edge_cuts, inner_wires, rq)
  IN  /\ edge_cuts' = r.edge_cuts
      /\ inner_wires' = r.inner_wires
      /\ last' = r.info
      /\ result' = NoResult
      /\ saved' = NoResult
      /\ dxf' = NoDxf
      /\ UNCHANGED <<width, height, origin, elsewhere>>

ClearLibraryShapes ==
  /\ edge_cuts' = << >>
  /\ inner_wires' = << >>
  /\ last' = NoCall("clear")
  /\ result' = NoResult
  /\ saved' = NoResult
  /\ dxf' = NoDxf
  /\ UNCHANGED <<width, height, origin, elsewhere>>

\* as_shape as it would be if building consumed the pending edge cuts.
AsShape_consuming ==
  /\ result' = as_shape(width, height, origin[1], origin[2],
                        edge_cuts, inner_wires)
  /\ edge_cuts' = << >>
  /\ UNCHANGED <<width, height, origin, inner_wires, last, saved, dxf,
                 elsewhere>>

AsShape ==
  /\ result' = as_shape(width, height, origin[1], origin[2],
                        edge_cuts, inner_wires)
  /\ UNCHANGED <<width, height, origin, edge_cuts, inner_wires, last, saved,
                 dxf, elsewhere>>

\* save_brep(path), for a path that can be written and for one that cannot.
SaveBrep ==
  /\ result' = as_shape(width, height, origin[1], origin[2],
                        edge_cuts, inner_wires)
  /\ \E writable \in BOOLEAN :
       saved' = save_brep(width, height, origin[1], origin[2],
                          edge_cuts, inner_wires, writable)
  /\ UNCHANGED <<width, height, origin, edge_cuts, inner_wires, last, dxf,
                 elsewhere>>

\* export_panel_to_dxf(panel)
ExportPanelToDxf ==
  /\ dxf' = export_panel_to_dxf(width, height, origin[1], origin[2],
                                edge_cuts, inner_wires)
  /\ UNCHANGED <<width, height, origin, edge_cuts, inner_wires, last, result,
                 saved, elsewhere>>

AddBuild ==
  /\ Len(edge_cuts) + Len(inner_wires) < MaxShapes
  /\ \E rq \in BuildRequests : AddLibraryShape(rq)

AddPlace ==
  /\ Len(edge_cuts) + Len(inner_wires) < MaxPlaced
  /\ \E rq \in PlaceRequests : AddLibraryShape(rq)

Next == AddBuild \/ ClearLibraryShapes \/ AsShape \/ SaveBrep

Spec == Init /\ [][Next]_vars

PlaceNext == AddPlace \/ ClearLibraryShapes

PlaceSpec == PlaceInit /\ [][PlaceNext]_vars

AddExport ==
  /\ Len(edge_cuts) + Len(inner_wires) < MaxExported
  /\ \E rq \in ExportRequests : AddLibraryShape(rq)

ExportNext ==
  \/ AddExport
  \/ ClearLibraryShapes
  \/ AsShape
  \/ SaveBrep
  \/ ExportPanelToDxf

ExportSpec == Init /\ [][ExportNext]_vars

\* A BREP file is read (_load_brep, breptools.Read).
LoadInit ==
  /\ \E pn \in Panels : Constructed(pn)
  /\ request = NoView
  /\ attempts = << >>
  /\ stored \in StoredShapes
  /\ loaded = NoLoad
  /\ asset = NoAsset
  /\ run = NoRun

\* Panel2D._profile_wire_from_shape(shape)
ProfileWireFromShape ==
  /\ loaded' = [by |-> "_profile_wire_from_shape",
                raised |-> profile_wire_from_shape(stored).raised,
                wire |-> profile_wire_from_shape(stored).wire]
  /\ UNCHANGED <<width, height, origin, edge_cuts, inner_wires, last, result,
                 saved, dxf, request, attempts, stored, asset, run>>

\* ShapeAsset._wire_from_shape_relaxed(shape)
WireFromShapeRelaxed ==
  /\ loaded' = [by |-> "_wire_from_shape_relaxed",
                raised |-> wire_from_shape_relaxed(stored).raised,
                wire |-> wire_from_shape_relaxed(stored).wire]
  /\ UNCHANGED <<width, height, origin, edge_cuts, inner_wires, last, result,
                 saved, dxf, request, attempts, stored, asset, run>>

LoadNext == ProfileWireFromShape \/ WireFromShapeRelaxed

LoadSpec == LoadInit /\ [][LoadNext]_vars

\* A view receives a request and constructs Panel2D(panel_width,
\* panel_height) with the default origin.
ViewInit ==
  /\ \E pn \in Panels : Constructed(pn)
  /\ request \in ViewRequests
  /\ attempts = << >>
  /\ stored = << >>
  /\ loaded = NoLoad
  /\ asset = NoAsset
  /\ run = NoRun

\* One iteration of the loop over the placed shapes of the request.
ViewAddShape ==
  /\ ~request.left
  /\ request.i < Len(request.shapes)
  /\ \E shape_data \in {request.shapes[request.i + 1]} :
       \E r \in {place_shape(PanelOf(width, height, origin[1], origin[2],
                                     edge_cuts, inner_wires), shape_data)} :
         /\ edge_cuts' = r.edge_cuts
         /\ inner_wires' = r.inner_wires
         /\ last' = r.info
         /\ attempts' = Append(attempts, [shape_id |-> shape_data.shape_id,
                                          raised |-> r.raised])
         /\ \E nxt \in {after_iteration(request.i, Len(request.shapes),
                                         r.raised,
                                         shape_id_bound(request.shapes,
                                                        request.i))} :
              request' = [request EXCEPT !.i = nxt.i, !.left = nxt.left]
  /\ UNCHANGED <<width, height, origin, result, saved, dxf, stored, loaded,
                 asset, run>>

\* After the loop: panel.as_shape(), export_panel_to_dxf(panel) or
\* panel.save_brep(file_path), whichever the view ends with.
ViewBuild ==
  /\ request.view \in Views
  /\ ~request.left
  /\ request.i >= Len(request.shapes)
  /\ result = NoResult /\ saved = NoResult /\ dxf = NoDxf
  /\ CASE request.view = "render_brep_view" ->
            /\ result' = as_shape(width, height, origin[1], origin[2],
                                  edge_cuts, inner_wires)
            /\ UNCHANGED <<saved, dxf>>
       [] request.view = "export_to_dxf" ->
            /\ dxf' = export_panel_to_dxf(width, height, origin[1], origin[2],
                                          edge_cuts, inner_wires)
            /\ UNCHANGED <<result, saved>>
       [] request.view = "export_to_brep" ->
            /\ \E writable \in BOOLEAN :
                 saved' = save_brep(width, height, origin[1], origin[2],
                                    edge_cuts, inner_wires, writable)
            /\ UNCHANGED <<result, dxf>>
  /\ UNCHANGED <<width, height, origin, edge_cuts, inner_wires, last,
                 request, attempts, stored, loaded, asset, run>>

ViewNext == ViewAddShape \/ ViewBuild

ViewSpec == ViewInit /\ [][ViewNext]_vars

\* A new ShapeAsset is uploaded: no canonical BREP yet.
ImportInit ==
  /\ \E pn \in Panels : Constructed(pn)
  /\ request = NoView
  /\ attempts = << >>
  /\ stored = << >>
  /\ loaded = NoLoad
  /\ \E file \in ImportFiles :
       asset = Asset(file, "", "none", FALSE, NotCanonicalized)
  /\ run = NoRun

\* shape_asset.canonicalize_wire_orientation(brep_path)
CanonicalizeWireOrientation ==
  /\ asset.call = "none"
  /\ asset' = Asset(asset.file, asset.canonical_brep,
                    "canonicalize_wire_orientation", FALSE,
                    canonicalize_wire_orientation(asset.file))
  /\ UNCHANGED <<width, height, origin, edge_cuts, inner_wires, last, result,
                 saved, dxf, request, attempts, stored, loaded, run>>

\* process_shape_asset(shape_asset)
ProcessShapeAsset ==
  /\ asset.call = "none"
  /\ \E r \in {process_shape_asset(asset)} :
       asset' = Asset(asset.file, r.canonical_brep, "process_shape_asset",
                      r.raised, r.canon)
  /\ UNCHANGED <<width, height, origin, edge_cuts, inner_wires, last, result,
                 saved, dxf, request, attempts, stored, loaded, run>>

ImportNext == CanonicalizeWireOrientation \/ ProcessShapeAsset

ImportSpec == ImportInit /\ [][ImportNext]_vars

\* A panel is about to be exported.
DxfInit ==
  /\ \E pn \in Panels : Constructed(pn)
  /\ request = NoView
  /\ attempts = << >>
  /\ stored = << >>
  /\ loaded = NoLoad
  /\ asset = NoAsset
  /\ \/ \E wires \in DxfShapes :
          run = Run("none", TRUE, wires, 0, 0, << >>, << >>)
     \/ run = Run("none", FALSE, << >>, 0, 0, << >>, << >>)

Unchanged_panel ==
  UNCHANGED <<width, height, origin, edge_cuts, inner_wires, last, result,
              saved, dxf, request, attempts, stored, loaded, asset>>

\* panel_shape = panel.as_shape(); wire_explorer = TopExp_Explorer(...): an
\* exception of as_shape becomes RuntimeError.
DxfBegin ==
  /\ run.status = "none"
  /\ run' = IF run.built THEN [run EXCEPT !.status = "wires", !.w = 1]
            ELSE [run EXCEPT !.status = "raise"]
  /\ Unchanged_panel

\* wire_explorer.More() holds: the edge explorer of the wire is made and
\* points is emptied.
DxfWireBegin ==
  /\ run.status = "wires"
  /\ run.w <= Len(run.wires)
  /\ run' = [run EXCEPT !.status = "edges", !.e = 1, !.points = << >>]
  /\ Unchanged_panel

\* edge_explorer.More() holds: the body of the edge loop is entered with the
\* current edge.
DxfEdgeBegin ==
  /\ run.status = "edges"
  /\ run.e <= Len(run.wires[run.w])
  /\ run' = [run EXCEPT !.status = "edge"]
  /\ Unchanged_panel

\* The body of the edge loop on an edge that can be read: two points are
\* appended and edge_explorer.Next() is called.
DxfEdgeRead ==
  /\ run.status = "edge"
  /\ run.wires[run.w][run.e].readable
  /\ run' = [run EXCEPT
               !.points = Append(Append(@, run.wires[run.w][run.e].start),
                                 run.wires[run.w][run.e].end),
               !.e = @ + 1,
               !.status = "edges"]
  /\ Unchanged_panel

\* The body of the edge loop on an edge whose curve cannot be read: the
\* except clause continues with the test of the loop, and
\* edge_explorer.Next() is not reached.
DxfEdgeSkip ==
  /\ run.status = "edge"
  /\ ~run.wires[run.w][run.e].readable
  /\ run' = [run EXCEPT !.status = "edges"]
  /\ Unchanged_panel

\* edge_explorer.More() fails: the polyline of the wire is added when its
\* points without consecutive repetitions are more than one, and
\* wire_explorer.Next() is called.
DxfWireEnd ==
  /\ run.status = "edges"
  /\ run.e > Len(run.wires[run.w])
  /\ run' = [run EXCEPT
               !.msp = IF run.points # << >>
                          /\ Len(unique_points(run.points)) > 1
                       THEN Append(@, unique_points(run.points)) ELSE @,
               !.w = @ + 1,
               !.status = "wires"]
  /\ Unchanged_panel

\* wire_explorer.More() fails: the document is written and returned.
DxfReturn ==
  /\ run.status = "wires"
  /\ run.w > Len(run.wires)
  /\ run' = [run EXCEPT !.status = "ok"]
  /\ Unchanged_panel

DxfNext ==
  \/ DxfBegin
  \/ DxfWireBegin
  \/ DxfEdgeBegin
  \/ DxfEdgeRead
  \/ DxfEdgeSkip
  \/ DxfWireEnd
  \/ DxfReturn

DxfSpec == DxfInit /\ [][DxfNext]_vars

\* The interpreter goes on executing the call: a step that can be taken is
\* taken.
DxfLiveSpec == DxfSpec /\ WF_vars(DxfNext)

\* ------------------------------------------------------------ properties
Built == result.status # "none"

PanelRect == make_outer_rect_wire(width, height, origin[1], origin[2])

PanelBox == BBox(origin[1], origin[2], origin[1] + width, origin[2] + height)

\* The outer boundary as_shape builds the final face on.
CurrentOuter ==
  IF Len(edge_cuts) = 0 THEN [raised |-> FALSE, wire |-> PanelRect]
  ELSE outer_wire_after_edge_cuts(width, height, origin[1], origin[2],
                                  edge_cuts)

\* Two bounding boxes that do not intersect, as add_library_shape tests it.
Apart(a, b) == a.x1 < b.x0 \/ a.x0 > b.x1 \/ a.y1 < b.y0 \/ a.y0 > b.y1

Overlap(a, b) == CutCells(a) \cap CutCells(b) # {}

Swapped == << edge_cuts[2], edge_cuts[1] >>

AsShapeSwapped ==
  as_shape(width, height, origin[1], origin[2], Swapped, inner_wires)

SameBoundary(r1, r2) == r1.status = r2.status /\ r1.outer = r2.outer

WellFormed(wires) == SelectSeq(wires, LAMBDA wr : wr.ok)

\* No cut of the list splits the face it is subtracted from, nor removes it.
RECURSIVE NoSplitFrom(_, _, _)
NoSplitFrom(face, cuts, i) ==
  IF i > Len(cuts) THEN TRUE
  ELSE LET left == BRepAlgoAPI_Cut(face, cuts[i]).shape
       IN  Len(left) = 1 /\ NoSplitFrom(left[1], cuts, i + 1)

NoSplit(cuts) ==
  NoSplitFrom(base_rect_face(width, height, origin[1], origin[2]), cuts, 1)

\* C1: as_shape never lets an exception escape and always returns a face
\* that passes validation, whatever edge cuts and inner wires are registered.
C1_BuildNeverFails ==
  Built => /\ result.status = "ok"
           /\ IsValid(MakeFace(result.outer, result.holes))

\* C2: when the face made of the outer wire and all the inner wires fails
\* validation, as_shape returns the face made of the outer wire alone.
C2_HoleFallback ==
  (Built /\ ~CurrentOuter.raised
         /\ ~IsValid(MakeFace(CurrentOuter.wire, inner_wires)))
    => result = Returned(MakeFace(CurrentOuter.wire, << >>))

\* C3: with one malformed inner wire registered among N >= 1 well-formed
\* ones, a face returned by as_shape holds all N well-formed holes or no hole
\* at all, with or without edge cuts.
C3_HolesAllOrNothing ==
  (Built /\ Len(inner_wires) >= 2
         /\ Len(WellFormed(inner_wires)) = Len(inner_wires) - 1
         /\ result.status = "ok")
    => \/ WellFormed(result.holes) = WellFormed(inner_wires)
       \/ result.holes = << >>

C3_Witness ==
  /\ Built
  /\ Len(inner_wires) = 3
  /\ Len(WellFormed(inner_wires)) = 2
  /\ inner_wires[1].ok /\ ~inner_wires[2].ok
  /\ IsValid(MakeFace(CurrentOuter.wire, << inner_wires[1] >>))
  /\ result.status = "raise"

\* C4: every face returned by as_shape, and every face written by save_brep,
\* passes validation, with and without edge cuts; a face that fails the final
\* validation is not returned.
C4_ReturnedFaceIsValidated ==
  /\ result.status = "ok" => IsValid(MakeFace(result.outer, result.holes))
  /\ saved.status = "ok" => IsValid(MakeFace(saved.outer, saved.holes))
  /\ (Built /\ ~CurrentOuter.raised
            /\ ~IsValid(MakeFace(CurrentOuter.wire, inner_wires)))
       => result.status = "raise"

C4_Witness ==
  /\ result.status = "ok"
  /\ saved.status = "ok"
  /\ Len(edge_cuts) > 0
  /\ Len(result.holes) > 0

\* C5 (as claimed): two edge cuts whose footprints do not overlap give the
\* same final outer boundary in either order of registration.
C5_DisjointCutsCommute ==
  (Built /\ Len(edge_cuts) = 2 /\ Apart(edge_cuts[1], edge_cuts[2]))
    => SameBoundary(result, AsShapeSwapped)

\* C5 (amended): two edge cuts whose footprints do not overlap, neither of
\* which splits (or removes) the face it is subtracted from in either order,
\* give the same final outer boundary in either order of registration.
C5_UnsplitDisjointCutsCommute ==
  (Built /\ Len(edge_cuts) = 2 /\ Apart(edge_cuts[1], edge_cuts[2])
         /\ NoSplit(edge_cuts) /\ NoSplit(Swapped))
    => SameBoundary(result, AsShapeSwapped)

C5_Witness ==
  /\ Built
  /\ Len(edge_cuts) = 2
  /\ Apart(edge_cuts[1], edge_cuts[2])
  /\ NoSplit(edge_cuts) /\ NoSplit(Swapped)
  /\ CutCells(edge_cuts[1]) \cap PanelRect # {}
  /\ CutCells(edge_cuts[2]) \cap PanelRect # {}
  /\ result.status = "ok"
  /\ result.outer # PanelRect

\* C6: on the 7 x 1 panel, the overlapping cuts A = [2,4] x [0,1] and
\* B = [3,5] x [0,1] give a different final outer boundary applied A then B
\* than applied B then A, each cut being subtracted from the largest face
\* left by the one before.
C6_OverlappingCutsOrderSensitive ==
  (/\ width = 7 /\ height = 1 /\ origin = <<0, 0>>
   /\ Len(edge_cuts) = 2
   /\ BBox(edge_cuts[1].x0, edge_cuts[1].y0, edge_cuts[1].x1, edge_cuts[1].y1)
        = BBox(2, 0, 4, 1)
   /\ BBox(edge_cuts[2].x0, edge_cuts[2].y0, edge_cuts[2].x1, edge_cuts[2].y1)
        = BBox(3, 0, 5, 1))
    => LET ab == CurrentOuter
           ba == outer_wire_after_edge_cuts(width, height, origin[1],
                                            origin[2], Swapped)
       IN  /\ ~ab.raised /\ ~ba.raised
           /\ ab.wire # ba.wire
           /\ (Built /\ inner_wires = << >>)
                => /\ result.status = "ok"
                   /\ result.outer = ab.wire
                   /\ ~SameBoundary(result, AsShapeSwapped)

C6_Witness ==
  /\ width = 7 /\ height = 1
  /\ Len(edge_cuts) = 2
  /\ Overlap(edge_cuts[1], edge_cuts[2])
  /\ edge_cuts[1].x0 = 2 /\ edge_cuts[1].x1 = 4
  /\ edge_cuts[2].x0 = 3 /\ edge_cuts[2].x1 = 5
  /\ inner_wires = << >>
  /\ result.status = "ok"
  /\ result.outer = RectCells(5, 0, 7, 1)
  /\ AsShapeSwapped.outer = RectCells(0, 0, 2, 1)

\* C7: when the only edge cut registered does not intersect the panel,
\* as_shape builds what it builds with no edge cut at all: no error comes
\* from the cut and the outer boundary is the width x height rectangle at
\* the panel origin.
C7_DegenerateCutHasNoEffect ==
  (Built /\ Len(edge_cuts) = 1 /\ Apart(edge_cuts[1], PanelBox))
    => /\ result = as_shape(width, height, origin[1], origin[2],
                            << >>, inner_wires)
       /\ result.status = "ok" => result.outer = PanelRect
       /\ inner_wires = << >> => result.status = "ok"

C7_Witness ==
  /\ Built
  /\ Len(edge_cuts) = 1
  /\ Apart(edge_cuts[1], PanelBox)
  /\ inner_wires = << >>
  /\ result.status = "ok"
  /\ result.outer = PanelRect

\* ------------------------------------- properties of the cut accumulator
\* The current face after the first k edge cuts.
AfterCuts(k) ==
  cut_loop(base_rect_face(width, height, origin[1], origin[2]),
           SubSeq(edge_cuts, 1, k), 1)

\* C18: a cut whose boolean operation is not done changes nothing: the
\* current face after it is the face before it, no exception comes from it,
\* and the cuts after it are applied as if it had not been registered.
C18_FailedCutIsNoOp ==
  (Built /\ \E k \in 1 .. Len(edge_cuts) : ~edge_cuts[k].done)
    => /\ \A k \in 1 .. Len(edge_cuts) :
            (~edge_cuts[k].done /\ ~AfterCuts(k - 1).raised)
              => /\ ~AfterCuts(k).raised
                 /\ AfterCuts(k).face = AfterCuts(k - 1).face
       /\ result = as_shape(width, height, origin[1], origin[2],
                            SelectSeq(edge_cuts, LAMBDA c : c.done),
                            inner_wires)

C18_Witness ==
  /\ Built
  /\ Len(edge_cuts) = 2
  /\ ~edge_cuts[1].done
  /\ edge_cuts[2].done
  /\ result.status = "ok"
  /\ result.outer = PanelRect \ CutCells(edge_cuts[2])
  /\ result.outer # PanelRect

\* C19: every cut that is done is subtracted from the face kept by the cut
\* before it, and the face kept is the face of largest area of its result,
\* the first found among those of equal area; the other faces of the result
\* are in no face kept later and not inside the final boundary.
C19_DominantRegionKept ==
  (Built /\ Len(edge_cuts) > 0)
    => \A k \in 1 .. Len(edge_cuts) :
         (edge_cuts[k].done /\ ~AfterCuts(k).raised)
           => LET shp == FacesOf(AfterCuts(k - 1).face \ CutCells(edge_cuts[k]))
              IN  \E n \in 1 .. Len(shp) :
                    /\ AfterCuts(k).face = shp[n]
                    /\ \A m \in 1 .. Len(shp) : Area(shp[m]) <= Area(shp[n])
                    /\ \A m \in 1 .. n - 1 : Area(shp[m]) < Area(shp[n])
                    /\ \A m \in (1 .. Len(shp)) \ {n} :
                         /\ \A j \in k .. Len(edge_cuts) :
                              shp[m] \cap AfterCuts(j).face = {}
                         /\ result.status = "ok" =>
                              shp[m] \cap result.outer = {}

C19_Witness ==
  /\ Built
  /\ width = 7
  /\ Len(edge_cuts) = 2
  /\ edge_cuts[1].x0 = 3 /\ edge_cuts[1].done
  /\ edge_cuts[2].x0 = 2 /\ edge_cuts[2].done
  /\ AfterCuts(1).face = RectCells(0, 0, 3, 1)
  /\ result.status = "ok"
  /\ result.outer = RectCells(0, 0, 2, 1)

\* C20: when the edge cuts leave nothing of the panel, the cut accumulator
\* returns the pristine rectangle of the panel and the build goes on with
\* it instead of failing.
C20_RectangleFallback ==
  (/\ Built
   /\ Len(edge_cuts) > 0
   /\ PanelRect \subseteq
        UNION { CutCells(edge_cuts[k]) : k \in 1 .. Len(edge_cuts) })
    => /\ ~CurrentOuter.raised
       /\ CurrentOuter.wire = PanelRect
       /\ inner_wires = << >> => result = Returned(MakeFace(PanelRect, << >>))

\* ------------------------------------------- properties of a placement
EdgeCall == last.op = "add" /\ last.kind # "internal_cutout"

InternalCall == last.op = "add" /\ last.kind = "internal_cutout"

QuarterTurn == last.angle_deg \in {90, 270}

\* C8: the translation of an edge-affecting placement is (0, position) for
\* Left, (width - effective width, position) for Right, (position, height -
\* effective height) for Top, (position, 0) for Bottom and the caller's
\* (tx, ty) for any other edge, the effective width and height being those
\* of the rotated bounding box (swapped by a quarter turn).
C8_EdgeToPosition ==
  EdgeCall =>
    LET p == Profile(last.profile)
        ew == IF QuarterTurn THEN p.h ELSE p.w
        eh == IF QuarterTurn THEN p.w ELSE p.h
    IN  /\ last.effective_width = ew
        /\ last.effective_height = eh
        /\ last.edge = "Left" => last.used = <<0, last.position>>
        /\ last.edge = "Right" => last.used = <<width - ew, last.position>>
        /\ last.edge = "Top" => last.used = <<last.position, height - eh>>
        /\ last.edge = "Bottom" => last.used = <<last.position, 0>>
        /\ last.edge \notin {"Left", "Right", "Top", "Bottom"}
             => last.used = <<last.tx, last.ty>>
        /\ last.placed.x1 - last.placed.x0 = ew
        /\ last.placed.y1 - last.placed.y0 = eh
        /\ last.outcome = "registered"
             => LET c == edge_cuts[Len(edge_cuts)]
                IN  BBox(c.x0, c.y0, c.x1, c.y1) = last.placed

C8_Witness ==
  /\ EdgeCall
  /\ last.profile = "bar"
  /\ last.edge = "Right"
  /\ last.angle_deg = 90
  /\ last.position = 2
  /\ last.tx = 3
  /\ last.used = <<width - 1, 2>>
  /\ last.outcome = "registered"

\* C9: the cut registered by an edge-affecting placement that names an edge
\* touches that edge of the panel, for every angle, panel origin and profile.
C9_FlushAgainstEdge ==
  (EdgeCall /\ last.outcome = "registered")
    => LET c == edge_cuts[Len(edge_cuts)]
       IN  /\ last.edge = "Left" => c.x0 = origin[1]
           /\ last.edge = "Right" => c.x1 = origin[1] + width
           /\ last.edge = "Top" => c.y1 = origin[2] + height
           /\ last.edge = "Bottom" => c.y0 = origin[2]

\* C16: on the Left or Right edge position is the distance from the top of
\* the panel down to the cut (to its upper or to its lower side), on the Top
\* or Bottom edge the distance from the left edge of the panel to the cut.
C16_PositionFromTop ==
  (EdgeCall /\ last.outcome = "registered")
    => LET c == edge_cuts[Len(edge_cuts)]
       IN  /\ last.edge \in {"Left", "Right"} =>
                \/ origin[2] + height - c.y1 = last.position
                \/ origin[2] + height - c.y0 = last.position
           /\ last.edge \in {"Top", "Bottom"} =>
                c.x0 - origin[1] = last.position

\* C17: an edge-affecting placement with scale s registers a cut whose
\* bounding box is s times the rotated bounding box of the profile, and the
\* effective width and height used for Right and Top are the scaled ones.
C17_ScaleApplied ==
  (EdgeCall /\ last.outcome = "registered")
    => LET p == Profile(last.profile)
           c == edge_cuts[Len(edge_cuts)]
           ew == IF QuarterTurn THEN p.h ELSE p.w
           eh == IF QuarterTurn THEN p.w ELSE p.h
       IN  /\ c.x1 - c.x0 = last.scale * ew
           /\ c.y1 - c.y0 = last.scale * eh
           /\ last.effective_width = last.scale * ew
           /\ last.effective_height = last.scale * eh

\* C10: the inner wire registered by an internal-cutout placement has the
\* centre of its bounding box at (origin x + tx, origin y + height - ty),
\* wherever the profile lies in its local frame.  (Inner wires are in
\* doubled coordinates, so the sum of two bounds is four times the centre.)
C10_CutoutCentre ==
  InternalCall =>
    /\ last.outcome = "registered"
    /\ LET wr == inner_wires[Len(inner_wires)]
           p == Profile(last.profile)
       IN  /\ wr.x0 + wr.x1 = 4 * (origin[1] + last.tx)
           /\ wr.y0 + wr.y1 = 4 * (origin[2] + height - last.ty)
           /\ wr.x1 - wr.x0 = 2 * p.w
           /\ wr.y1 - wr.y0 = 2 * p.h

C10_Witness ==
  /\ InternalCall
  /\ last.profile = "off"
  /\ origin = <<1, 2>>
  /\ last.tx = 3 /\ last.ty = 1
  /\ Len(inner_wires) = 1
  /\ inner_wires[1].x0 + inner_wires[1].x1 = 16
  /\ inner_wires[1].y0 + inner_wires[1].y1 = 12

\* ------------------------------------------------- properties of a view
\* The ways adding a placement raises: the element is not an object, the id
\* is not in the database, the asset has no canonical BREP, the stored
\* profile has no boundary.
Fails(shape_data) ==
  \/ ~shape_data.object
  \/ \A a \in Assets : a.id # shape_data.shape_id
  \/ \E a \in Assets :
       /\ a.id = shape_data.shape_id
       /\ \/ a.canonical_brep = ""
          \/ /\ a.canonical_brep # ""
             /\ \A k \in 1 .. Len(Profile(a.canonical_brep).shape) :
                  Profile(a.canonical_brep).shape[k]
                    \notin {"wire", "face"}

\* The panel after the records k .. of the list, the failing ones left out.
RECURSIVE Registered(_, _, _)
Registered(panel, shapes, k) ==
  IF k > Len(shapes) THEN panel
  ELSE IF Fails(shapes[k]) THEN Registered(panel, shapes, k + 1)
  ELSE LET r == place_shape(panel, shapes[k])
       IN  Registered([panel EXCEPT !.edge_cuts = r.edge_cuts,
                                    !.inner_wires = r.inner_wires],
                      shapes, k + 1)

Responded == result # NoResult \/ saved # NoResult \/ dxf # NoDxf

\* C11: in the three views a placement that raises is skipped: every record
\* of the request is attempted, in request order, whatever happened to the
\* records before it; the panel holds exactly the placements that did not
\* raise; and the build is made, after the last record, from that panel.
\* A raise from an unknown id, an asset without canonical BREP or a profile
\* without boundary never leaves the loop: the loop is left only on a first
\* element that is not an object.
C11_FailingPlacementSkipped ==
  request.view \in Views =>
    LET done == SubSeq(request.shapes, 1, Len(attempts))
        panel == Registered(PanelOf(width, height, origin[1], origin[2],
                                    << >>, << >>), done, 1)
    IN  /\ request.i = Len(attempts)
        /\ request.i <= Len(request.shapes)
        /\ request.left => (request.i = 1 /\ ~request.shapes[1].object)
        /\ \A k \in 1 .. Len(attempts) :
             /\ attempts[k].shape_id = request.shapes[k].shape_id
             /\ attempts[k].raised = Fails(request.shapes[k])
        /\ edge_cuts = panel.edge_cuts
        /\ inner_wires = panel.inner_wires
        /\ Responded =>
             /\ Len(attempts) = Len(request.shapes)
             /\ result # NoResult =>
                  result = as_shape(width, height, origin[1], origin[2],
                                    panel.edge_cuts, panel.inner_wires)
             /\ dxf # NoDxf =>
                  dxf = export_panel_to_dxf(width, height, origin[1],
                                            origin[2], panel.edge_cuts,
                                            panel.inner_wires)
             /\ saved # NoResult =>
                  \E writable \in BOOLEAN :
                    saved = save_brep(width, height, origin[1], origin[2],
                                      panel.edge_cuts, panel.inner_wires,
                                      writable)

C11_Witness ==
  /\ request.view = "export_to_dxf"
  /\ Len(request.shapes) = 3
  /\ request.shapes[1].shape_id = "ghost"
  /\ request.shapes[2].shape_id = "scrap"
  /\ request.shapes[3].shape_id = "notch"
  /\ Len(attempts) = 3
  /\ attempts[1].raised /\ attempts[2].raised /\ ~attempts[3].raised
  /\ Len(edge_cuts) = 1
  /\ dxf.status = "ok"

\* ------------------------------------------------ properties of an export
\* The start and end points of the edges of a wire, in order.
PointsOf(edges) ==
  [k \in 1 .. 2 * Len(edges) |->
     IF k % 2 = 1 THEN edges[(k + 1) \div 2].start ELSE edges[k \div 2].end]

\* A list of points with every run of equal consecutive points collapsed.
RECURSIVE Collapse(_)
Collapse(points) ==
  IF Len(points) <= 1 THEN points
  ELSE IF points[1] = points[2] THEN Collapse(Tail(points))
  ELSE << points[1] >> \o Collapse(Tail(points))

\* The wires of the face as_shape returns for the panel as it is.
FinalWires ==
  FaceWires(as_shape(width, height, origin[1], origin[2],
                     edge_cuts, inner_wires))

\* C12: the DXF document holds one polyline per wire of the final face: the
\* outer wire and every hole, a hole made of one closed edge included.
C12_OnePolylinePerWire ==
  dxf.status = "ok" => Len(dxf.polylines) = Len(FinalWires)

\* C13: every point list given to add_lwpolyline is the sequence of start
\* and end points of the edges of its wire with every run of equal
\* consecutive points collapsed to one, so no two adjacent points are equal.
C13_NoConsecutiveRepeats ==
  dxf.status = "ok" =>
    LET collapsed == [i \in 1 .. Len(FinalWires) |->
                        Collapse(PointsOf(FinalWires[i]))]
    IN  /\ dxf.polylines = SelectSeq(collapsed, LAMBDA pl : Len(pl) > 1)
        /\ \A n \in 1 .. Len(dxf.polylines) :
             \A k \in 1 .. Len(dxf.polylines[n]) - 1 :
               dxf.polylines[n][k] # dxf.polylines[n][k + 1]

C13_Witness ==
  /\ dxf.status = "ok"
  /\ Len(edge_cuts) = 1
  /\ Len(inner_wires) = 1
  /\ Len(dxf.polylines) = 2
  /\ Len(PointsOf(FinalWires[1])) = 16
  /\ Len(dxf.polylines[1]) = 9
  /\ Len(dxf.polylines[2]) = 5

\* A step that builds: a shape, a BREP file or a DXF document comes out.
BuildStep ==
  \/ result' # result /\ result' # NoResult
  \/ saved' # saved /\ saved' # NoResult
  \/ dxf' # dxf /\ dxf' # NoDxf

get_library_shapes_count == <<Len(edge_cuts), Len(inner_wires)>>

\* C14: as_shape, save_brep and export_panel_to_dxf leave width, height,
\* origin and both lists as they are, so get_library_shapes_count is the
\* same before and after; and a build repeated with no placement in between
\* gives the same shape and document, and the same file whenever the file
\* is written.
C14_BuildIsReadOnly ==
  [][/\ BuildStep =>
          /\ UNCHANGED <<width, height, origin, edge_cuts, inner_wires>>
          /\ get_library_shapes_count' = get_library_shapes_count
     /\ (result # NoResult /\ result' # NoResult) => result' = result
     /\ (saved.status = "ok" /\ saved'.status = "ok") => saved' = saved
     /\ (dxf # NoDxf /\ dxf' # NoDxf) => dxf' = dxf]_vars

C14_Witness ==
  /\ result.status = "ok"
  /\ saved.status = "ok"
  /\ dxf.status = "ok"
  /\ Len(edge_cuts) >= 1
  /\ Len(inner_wires) >= 1
  /\ result.outer # PanelRect

\* -------------------------------------------------- properties of a loader
HasItem(shp, kinds) == \E i \in 1 .. Len(shp) : shp[i] \in kinds

\* The stored shape is a single periodic edge: the only edge in it.
SinglePeriodicEdge(shp) ==
  /\ Cardinality({ i \in 1 .. Len(shp) : shp[i] = "circle" }) = 1
  /\ ~HasItem(shp, {"wire", "face", "line"})

\* The first item of the shape that holds a wire.
FirstWireItem(shp) ==
  CHOOSE i \in 1 .. Len(shp) :
    /\ shp[i] \in {"wire", "face"}
    /\ \A j \in 1 .. i - 1 : shp[j] \notin {"wire", "face"}

\* C15: a loader returns a wire for a stored shape that holds a wire, a face
\* with its boundary, or a single periodic edge, tried in this order; it
\* raises exactly when the shape is none of the three, and the wire it
\* returns is never null.
C15_LoaderThreeForms ==
  loaded.by # "none" =>
    /\ loaded.raised <=>
         ~(HasItem(stored, {"wire", "face"}) \/ SinglePeriodicEdge(stored))
    /\ ~loaded.raised =>
         /\ loaded.wire # NullWire
         /\ HasItem(stored, {"wire", "face"}) =>
              loaded.wire = [item |-> FirstWireItem(stored),
                             via |-> stored[FirstWireItem(stored)]]
         /\ ~HasItem(stored, {"wire", "face"}) => loaded.wire.via = "edge"

\* ------------------------------------------- properties of the drop policy
\* A step that is a call of add_library_shape.
AddStep ==
  /\ last'.op = "add"
  /\ result' = NoResult /\ saved' = NoResult /\ dxf' = NoDxf

\* What as_shape would return for the panel as it is.
BuildNow ==
  as_shape(width, height, origin[1], origin[2], edge_cuts, inner_wires)

\* C21: an edge-affecting placement whose transformed face the analyzer
\* rejects returns normally and is dropped: both lists, width, height and
\* origin are as before the call, so the build and every later placement
\* give what they would have given without the call.
C21_InvalidEdgeFaceDropped ==
  [][(/\ AddStep
      /\ last'.kind # "internal_cutout"
      /\ last'.outcome # "raised"
      /\ ~Profile(last'.profile).ok)
       => /\ last'.outcome = "dropped"
          /\ UNCHANGED <<edge_cuts, inner_wires, width, height, origin>>
          /\ \E pn \in {PanelOf(width', height', origin'[1], origin'[2],
                                 edge_cuts', inner_wires')} :
               /\ as_shape(pn.width, pn.height, pn.ox, pn.oy, pn.edge_cuts,
                           pn.inner_wires) = BuildNow
               /\ \A rq \in BuildRequests :
                    add_library_shape(pn.width, pn.height, pn.ox, pn.oy,
                                      pn.edge_cuts, pn.inner_wires, rq)
                      = add_library_shape(width, height, origin[1], origin[2],
                                          edge_cuts, inner_wires, rq)]_vars

C21_Witness ==
  /\ EdgeCall
  /\ last.profile = "bad"
  /\ last.outcome = "dropped"
  /\ Len(edge_cuts) = 1
  /\ edge_cuts[1].ok
  /\ result.status = "ok"
  /\ result.outer = PanelRect \ CutCells(edge_cuts[1])

\* C22: no wire is in the inner-wire list unless the analyzer accepted the
\* placed geometry: an internal cutout that fails validation is dropped when
\* it is added.
C22_ValidatorGatesInnerWires ==
  \A i \in 1 .. Len(inner_wires) : inner_wires[i].ok

\* --------------------------------------------- properties of the rotation
\* The bounds of the wire after rotation and renormalisation, read back from
\* the registered position: the cut is the wire translated by (tx, ty).
NormalizedCorner ==
  <<last.placed.x0 - last.used[1], last.placed.y0 - last.used[2]>>

RotatedBounds ==
  rotate_wire_around_center(ProfileBounds(Profile(last.profile)),
                            last.angle_deg)

\* C23: for an edge-affecting placement with a non-zero angle whose rotated
\* wire has a negative bound on either axis, the renormalised wire has its
\* minimum corner at (0, 0) on both axes, wherever the profile is stored.
C23_RenormalizedToOrigin ==
  (/\ EdgeCall
   /\ last.outcome # "raised"
   /\ last.angle_deg # 0
   /\ (RotatedBounds.x0 < 0 \/ RotatedBounds.y0 < 0))
    => NormalizedCorner = <<0, 0>>

\* The calls that differ from the last one in angle, scale, edge and
\* position only.
SameButTurned ==
  { WithScale(Request(Profile(last.profile), last.kind, last.tx, last.ty,
                      angle_deg, edge, o[3]), o[4]) :
      angle_deg \in Angles, edge \in Edges, o \in Offsets }

\* C24: an internal cutout is not rotated: the call made with any other
\* angle (and scale, edge, position) on the panel as it was registers the
\* same inner wire and leaves the same two lists.
C24_RotationNoOpForCutouts ==
  (InternalCall /\ last.outcome = "registered")
    => LET before == SubSeq(inner_wires, 1, Len(inner_wires) - 1)
       IN  \A rq \in SameButTurned :
             LET r == add_library_shape(width, height, origin[1], origin[2],
                                        edge_cuts, before, rq)
             IN  /\ r.inner_wires = inner_wires
                 /\ r.edge_cuts = edge_cuts
                 /\ r.info.outcome = "registered"

C24_Witness ==
  /\ InternalCall
  /\ last.outcome = "registered"
  /\ last.profile = "bar"
  /\ last.angle_deg = 90
  /\ last.tx = 3 /\ last.ty = 1
  /\ Len(inner_wires) = 1
  /\ inner_wires[1].x1 - inner_wires[1].x0 = 4
  /\ inner_wires[1].y1 - inner_wires[1].y0 = 2

\* ------------------------------------------ properties of the orientation
\* The orientation of the wire of the last call as it was loaded.
LoadedOrientation == Profile(last.profile).ori

\* The translation of the last internal cutout is zero: _translate_shape
\* returned the shape it was given.
Untransformed == last.used = <<0, 0>>

\* C25 (as claimed): the wire an internal cutout appends has the orientation
\* opposite to the one it was loaded with, whatever that orientation is; the
\* cut an edge-affecting placement appends keeps the loaded orientation.
C25_HoleOrientationOpposite ==
  /\ (InternalCall /\ last.outcome = "registered")
       => LET wr == inner_wires[Len(inner_wires)]
          IN  /\ wr.ori # LoadedOrientation
              /\ LoadedOrientation = "FORWARD" => wr.ori = "REVERSED"
              /\ LoadedOrientation = "REVERSED" => wr.ori = "FORWARD"
              /\ LoadedOrientation = "INTERNAL" => wr.ori = "EXTERNAL"
              /\ LoadedOrientation = "EXTERNAL" => wr.ori = "INTERNAL"
  /\ (EdgeCall /\ last.outcome = "registered")
       => edge_cuts[Len(edge_cuts)].ori = LoadedOrientation

\* C25 (amended): the wire an internal cutout appends has been reversed
\* once, also when the translation is zero: it is REVERSED when loaded
\* FORWARD, FORWARD when loaded REVERSED, and as loaded when loaded INTERNAL
\* or EXTERNAL; the cut of an edge-affecting placement keeps the loaded
\* orientation.
C25_HoleReversedOnce ==
  /\ (InternalCall /\ last.outcome = "registered")
       => LET wr == inner_wires[Len(inner_wires)]
          IN  /\ LoadedOrientation = "FORWARD" => wr.ori = "REVERSED"
              /\ LoadedOrientation = "REVERSED" => wr.ori = "FORWARD"
              /\ LoadedOrientation \in {"INTERNAL", "EXTERNAL"}
                   => wr.ori = LoadedOrientation
  /\ (EdgeCall /\ last.outcome = "registered")
       => edge_cuts[Len(edge_cuts)].ori = LoadedOrientation

C25_Witness ==
  /\ InternalCall
  /\ last.outcome = "registered"
  /\ last.profile = "rev"
  /\ Untransformed
  /\ Len(inner_wires) = 1
  /\ inner_wires[1].ori = "FORWARD"
  /\ inner_wires[1].x0 = 0 /\ inner_wires[1].x1 = 4

\* ------------------------------------- properties of the boundary selection
\* The area of the temporary face built from a wire of a stored shape: the
\* files hold unit-square wires and faces bounded by a 2 x 2 square.
WireArea(wire) == IF wire.via = "face" THEN 4 ELSE 1

\* C26: the wire taken as outer boundary is the one whose temporary face has
\* the largest area, the first seen among those of equal area, both when
\* _profile_wire_from_shape loads a stored shape that exposes several wires
\* and when the outer wire is selected after the edge cuts.
C26_OuterWireByLargestArea ==
  /\ (loaded.by = "_profile_wire_from_shape" /\ ~loaded.raised)
       => LET wires == ExploreWires(stored)
          IN  \E n \in 1 .. Len(wires) :
                /\ loaded.wire = wires[n]
                /\ \A m \in 1 .. Len(wires) :
                     WireArea(wires[m]) <= WireArea(wires[n])
                /\ \A m \in 1 .. n - 1 :
                     WireArea(wires[m]) < WireArea(wires[n])
  /\ (Built /\ Len(edge_cuts) > 0 /\ result.status = "ok")
       => LET wires == WiresOf(AfterCuts(Len(edge_cuts)).face)
          IN  \E n \in 1 .. Len(wires) :
                /\ result.outer = wires[n]
                /\ \A m \in 1 .. Len(wires) : Area(wires[m]) <= Area(wires[n])
                /\ \A m \in 1 .. n - 1 : Area(wires[m]) < Area(wires[n])

\* ---------------------------------------------- properties of an import
\* C27: when canonicalize_wire_orientation returns True the wire passed the
\* closure check and is FORWARD at return, whatever its orientation was;
\* the method never raises; and when it returns False inside
\* process_shape_asset the import fails and canonical_brep is not set.
C27_CanonicalIsForward ==
  /\ asset.canon.returned
       => /\ asset.canon.checked
          /\ asset.canon.orientation = "FORWARD"
  /\ asset.call = "canonicalize_wire_orientation" => ~asset.raised
  /\ (asset.call = "process_shape_asset" /\ ~asset.canon.returned)
       => /\ asset.raised
          /\ asset.canonical_brep = ""

\* ------------------------------------------ properties of the export loops
\* C28: every call of export_panel_to_dxf comes to an end: it returns the
\* document or raises RuntimeError, also when the curve of an edge cannot be
\* read and the edge is skipped.
C28_ExportTerminates == <>(run.status \in {"ok", "raise"})

\* ------------------------------------------------ frame of a placement
\* A step that is a call of clear_library_shapes.
ClearStep ==
  /\ last'.op = "clear"
  /\ result' = NoResult /\ saved' = NoResult /\ dxf' = NoDxf

\* The list after is the list before, or the list before with one element
\* appended.
AppendedAtMostOne(before, after) ==
  \/ after = before
  \/ /\ Len(after) = Len(before) + 1
     /\ SubSeq(after, 1, Len(before)) = before

\* C29: a call of add_library_shape appends at most one element to exactly
\* one list: an internal_cutout call leaves the edge cuts as they were, a
\* call of any other kind leaves the inner wires as they were, a call that
\* raises or drops leaves both, and width, height and origin stay; so each
\* count of get_library_shapes_count grows by at most one, and only in a
\* call of its kind, and clear_library_shapes sets both counts to 0.
C29_PlacementFrame ==
  [][/\ AddStep =>
          /\ UNCHANGED <<width, height, origin>>
          /\ AppendedAtMostOne(edge_cuts, edge_cuts')
          /\ AppendedAtMostOne(inner_wires, inner_wires')
          /\ edge_cuts' = edge_cuts \/ inner_wires' = inner_wires
          /\ last'.kind = "internal_cutout" => edge_cuts' = edge_cuts
          /\ last'.kind # "internal_cutout" => inner_wires' = inner_wires
          /\ last'.outcome \in {"raised", "dropped"} =>
                UNCHANGED <<edge_cuts, inner_wires>>
          /\ get_library_shapes_count'[1] <=
                get_library_shapes_count[1]
                  + (IF last'.kind # "internal_cutout" THEN 1 ELSE 0)
          /\ get_library_shapes_count'[2] <=
                get_library_shapes_count[2]
                  + (IF last'.kind = "internal_cutout" THEN 1 ELSE 0)
     /\ ClearStep =>
          /\ UNCHANGED <<width, height, origin>>
          /\ get_library_shapes_count' = <<0, 0>>]_vars

\* An internal cutout has just been registered on a panel that holds an
\* edge cut, and a count has reached two.
C29_Witness ==
  /\ InternalCall
  /\ last.outcome = "registered"
  /\ get_library_shapes_count[1] >= 1
  /\ get_library_shapes_count[1] + get_library_shapes_count[2] >= 3

\* ------------------------------------ the kind a placement is registered as
\* The last record of the request gone through was placed without raising.
JustPlaced ==
  /\ request.view \in Views
  /\ request.i >= 1
  /\ Len(attempts) >= request.i
  /\ ~attempts[request.i].raised

\* The record placed last and the asset it names.
PlacedRecord == request.shapes[request.i]
PlacedAsset == objects_get(PlacedRecord.shape_id).asset

\* The record with other coordinates.
MovedTo(shape_data, x, y) == [shape_data EXCEPT !.x = x, !.y = y]

\* Where the placement of the record lands depends on the x and y of the
\* record.
PositionedFromXY(shape_data) ==
  \E x, y \in 0 .. 3 :
    \E pn \in {PanelOf(width, height, origin[1], origin[2], << >>, << >>)} :
      place_shape(pn, MovedTo(shape_data, x, y)).info.placed
        # place_shape(pn, shape_data).info.placed

\* C30 as stated: a placement is registered under the stored shape_type of
\* the asset, and an internal cutout is positioned from the x and y of the
\* record only when the shape_type of the record is the stored one.
C30_KindFromAsset ==
  JustPlaced =>
    /\ last.op = "add"
    /\ last.kind = PlacedAsset.shape_type
    /\ (last.kind = "internal_cutout" /\ PositionedFromXY(PlacedRecord))
          => PlacedRecord.shape_type = PlacedAsset.shape_type

\* C30, amended: a placement is registered under the stored shape_type of
\* the asset whatever the shape_type of the record; the record's shape_type
\* selects the arguments, edge and position when it is "edge_affecting", x
\* and y otherwise; so an internal cutout is positioned from the x and y of
\* the record exactly when the shape_type of the record is not
\* "edge_affecting", the stored type or not.
C30_KindFromAssetArgsFromRecord ==
  JustPlaced =>
    /\ last.op = "add"
    /\ last.kind = PlacedAsset.shape_type
    /\ PlacedRecord.shape_type = "edge_affecting" =>
          /\ last.tx = 0 /\ last.ty = 0
          /\ last.edge = PlacedRecord.edge
          /\ last.position = PlacedRecord.position
    /\ PlacedRecord.shape_type # "edge_affecting" =>
          /\ last.tx = PlacedRecord.x /\ last.ty = PlacedRecord.y
          /\ last.edge = "None" /\ last.position = 0
    /\ last.kind = "internal_cutout" =>
          (PositionedFromXY(PlacedRecord)
             <=> PlacedRecord.shape_type # "edge_affecting")

\* A hole sent as edge-affecting has been registered as an inner wire, and
\* a notch sent as internal cutout as an edge cut.
C30_Witness ==
  /\ JustPlaced
  /\ request.i = 2
  /\ request.shapes[1].shape_id = "notch"
  /\ request.shapes[1].shape_type = "internal_cutout"
  /\ PlacedRecord.shape_id = "hole"
  /\ PlacedRecord.shape_type = "edge_affecting"
  /\ last.kind = "internal_cutout"
  /\ last.outcome = "registered"
  /\ Len(edge_cuts) = 1
  /\ Len(inner_wires) = 1

====
